---- MODULE Spec2Model ----
(***************************************************************************)
(* EME Wealth Objetive (src/app.py): the projection engine                 *)
(* (calcular_valor_futuro, calcular_cagr_necesario,                        *)
(* calcular_aportacion_necesaria), one run of the Streamlit script main()  *)
(* and the PDF export.                                                     *)
(*                                                                         *)
(* Numbers.  Python floats are modelled by fixed-point numbers: the        *)
(* integer x stands for x / Scale, products and quotients are rounded      *)
(* down to a multiple of 1 / Scale.  Money is counted in thousands of      *)
(* euros, so 100 * Scale is 100 000 EUR; a rate of 1 % is Scale \div 100.  *)
(***************************************************************************)
EXTENDS Integers, Sequences, FiniteSets

VARIABLES
    pc,                          \* "entrada" -> "mostrado" -> "exportado"
    input_mode,                  \* st.radio: "Manual" or "CSV"
    patrimonio_inicial,
    objetivo_patrimonial,
    horizonte_temporal,
    aportacion_actual,
    rentabilidad_fija_decimal,
    cagr_necesario,              \* optional number
    ahorro_necesario_mensual,    \* optional number
    gap_ahorro,
    kpi,                         \* the three st.metric cards
    years_axis,
    serie_mercado,
    serie_objetivo,
    serie_cash,
    final_con_ref,
    data_resumen,
    df_export,
    pdf                          \* the table rows generar_pdf writes

vars == <<pc, input_mode, patrimonio_inicial, objetivo_patrimonial,
          horizonte_temporal, aportacion_actual, rentabilidad_fija_decimal,
          cagr_necesario, ahorro_necesario_mensual, gap_ahorro, kpi,
          years_axis, serie_mercado, serie_objetivo, serie_cash,
          final_con_ref, data_resumen, df_export, pdf>>

----------------------------------------------------------------------------
(* Fixed-point arithmetic *)

Scale == 10^4

Abs(x) == IF x < 0 THEN -x ELSE x

\* floor(a * b / Scale), split so that no intermediate product leaves 32 bits
Mul(a, b) ==
    LET h1 == a \div Scale
        l1 == a % Scale
        h2 == b \div Scale
        l2 == b % Scale
    IN  (h1 * h2) * Scale + h1 * l2 + l1 * h2 + (l1 * l2) \div Scale

\* <<floor(r * s / b), (r * s) % b>> for 0 <= r < b, by doubling
RECURSIVE MulDivMod(_, _, _)
MulDivMod(r, s, b) ==
    IF s = 0 THEN <<0, 0>>
    ELSE IF s % 2 = 0
    THEN LET half == MulDivMod(r, s \div 2, b)
             rr == 2 * half[2]
         IN  IF rr >= b THEN <<2 * half[1] + 1, rr - b>>
                        ELSE <<2 * half[1], rr>>
    ELSE LET prev == MulDivMod(r, s - 1, b)
             rr == prev[2] + r
         IN  IF rr >= b THEN <<prev[1] + 1, rr - b>>
                        ELSE <<prev[1], rr>>

\* floor(a * Scale / b) for b > 0
DivPos(a, b) ==
    LET qa == a \div b
        ra == a % b
    IN  qa * Scale + MulDivMod(ra, Scale, b)[1]

\* a / b in fixed point, b # 0
Div(a, b) == IF b < 0 THEN DivPos(-a, -b) ELSE DivPos(a, b)

\* q ** n for an integer n >= 0 (0 ** 0 = 1, as in Python)
RECURSIVE Pow(_, _)
Pow(q, n) ==
    IF n = 0 THEN Scale
    ELSE LET half == Pow(q, n \div 2)
             sq == Mul(half, half)
         IN  IF n % 2 = 0 THEN sq ELSE Mul(sq, q)

----------------------------------------------------------------------------
(* Optional numbers: None, or a float *)

None == [ok |-> FALSE, val |-> 0]
Some(x) == [ok |-> TRUE, val |-> x]

\* Python truthiness of an optional float: None and 0.0 are both false
Truthy(x) == x.ok /\ x.val # 0

----------------------------------------------------------------------------
(* Projection engine *)

\* Faulty variant of fv_principal: compounds one month too many
fv_principal_mes_extra(present_value, months, monthly_rate) ==
    Mul(present_value, Pow(Scale + monthly_rate, months + 1))

\* FV of the initial principal: present_value * (1 + monthly_rate) ** months
fv_principal(present_value, months, monthly_rate) ==
    Mul(present_value, Pow(Scale + monthly_rate, months))

\* Faulty variant of fv_contributions: at rate 0 counts the years, not the months
fv_contributions_anual(monthly_contribution, months, monthly_rate) ==
    IF monthly_rate > 0
    THEN Mul(monthly_contribution,
             Div(Pow(Scale + monthly_rate, months) - Scale, monthly_rate))
    ELSE monthly_contribution * (months \div 12)

\* FV of the monthly contributions
fv_contributions(monthly_contribution, months, monthly_rate) ==
    IF monthly_rate > 0
    THEN Mul(monthly_contribution,
             Div(Pow(Scale + monthly_rate, months) - Scale, monthly_rate))
    ELSE monthly_contribution * months

calcular_valor_futuro(present_value, monthly_contribution, years, annual_rate) ==
    LET months == years * 12
        monthly_rate == annual_rate \div 12
    IN  fv_principal(present_value, months, monthly_rate)
          + fv_contributions(monthly_contribution, months, monthly_rate)

\* The monthly rates the rate solver can land on
TasasMensuales == {-(Scale \div 100), Scale \div 100}

\* The annuity equation npf.rate solves, at the monthly rate m:
\* fv + pv * (1+m)^nper + pmt * ((1+m)^nper - 1) / m  (pmt * nper at m = 0)
AnnuityResidual(m, nper, pmt, pv, fv) ==
    LET temp == Pow(Scale + m, nper)
        fact == IF m = 0 THEN nper * Scale ELSE Div(temp - Scale, m)
    IN  fv - (Mul(-pv, temp) + Mul(-pmt, fact))

\* numpy_financial.rate(nper, pmt, pv, fv): a root of the annuity equation,
\* or NaN (here None) when the iteration finds none.  The set of its possible
\* results.
npf_rate(nper, pmt, pv, fv) ==
    LET roots == {m \in TasasMensuales : AnnuityResidual(m, nper, pmt, pv, fv) = 0}
    IN  IF roots = {} THEN {None} ELSE {Some(m) : m \in roots}

\* The set of results calcular_cagr_necesario can return
calcular_cagr_necesario(present_value, target_value, years, monthly_contribution) ==
    LET months == years * 12
    IN  { IF ~monthly_rate.ok
          THEN None
          ELSE Some(Pow(Scale + monthly_rate.val, 12) - Scale) :
          monthly_rate \in npf_rate(months, -monthly_contribution,
                                    -present_value, target_value) }

\* numpy_financial.pmt(rate, nper, pv, fv) = -(fv + pv * (1+rate)^nper) / fact
npf_pmt(rate, nper, pv, fv) ==
    LET temp == Pow(Scale + rate, nper)
        fact == IF rate = 0 THEN nper * Scale ELSE Div(temp - Scale, rate)
    IN  Div(-(fv + Mul(pv, temp)), fact)

calcular_aportacion_necesaria(present_value, target_value, years, annual_rate_fixed) ==
    LET months == years * 12
        monthly_rate == annual_rate_fixed \div 12
    IN  Some(Abs(npf_pmt(monthly_rate, months, -present_value, target_value)))

----------------------------------------------------------------------------
(* Presentation helpers *)

\* A displayed field: a fixed text, or a formatted number
Literal(s) == [texto |-> s, num |-> 0]
Mostrar(x) == [texto |-> "num", num |-> x]

\* f"{x:.Nf}": x rounded to the nearest multiple of unit, ties to even
RoundHalfEven(x, unit) ==
    LET lo == x \div unit
        rem == x % unit
    IN  IF 2 * rem > unit \/ (2 * rem = unit /\ lo % 2 = 1)
        THEN (lo + 1) * unit
        ELSE lo * unit

\* list(range(n))
Range(n) == [i \in 1..n |-> i - 1]

RECURSIVE SumSeq(_)
SumSeq(s) == IF s = <<>> THEN 0 ELSE Head(s) + SumSeq(Tail(s))

----------------------------------------------------------------------------
(* Inputs of one run *)

MaxAportacion == 1

\* st.number_input(min_value=0.0) in manual mode
PatrimonioManual == {0, 100 * Scale}

\* the cleaned value column of an uploaded CSV; the sum is not range-checked
ArchivosCsv == {<<100 * Scale, -150 * Scale>>, <<50 * Scale, 25 * Scale>>}

Patrimonios(mode) ==
    IF mode = "Manual" THEN PatrimonioManual
    ELSE {SumSeq(f) : f \in ArchivosCsv}

Aportaciones == {k * Scale : k \in 0..MaxAportacion}

\* st.slider("Horizonte (Años)", min_value=1, max_value=50)
Horizontes == 1..50

\* rentabilidad_fija_ref / 100.0 for 0 % and 12 %
RentabilidadesFijas == {0, 12 * (Scale \div 100)}

\* Smallest target the sidebar can produce: 500 EUR a month at 8 %
MinObjetivo == ((Scale \div 2) * 12 * 100) \div 8

\* objetivo_patrimonial = gasto_anual / (tasa_retirada_segura / 100) ranges over
\* every amount from MinObjetivo up.  The targets drawn here are those the rate
\* solver has a root for on TasasMensuales, and MinObjetivo where no rate can
\* reach a positive target at all (nothing owned, nothing saved).
Objetivos(pv, pmt, h) ==
    {t \in {-AnnuityResidual(m, h * 12, -pmt, -pv, 0) : m \in TasasMensuales} :
        t >= MinObjetivo}
    \cup (IF pv <= 0 /\ pmt = 0 THEN {MinObjetivo} ELSE {})

----------------------------------------------------------------------------
(* The script *)

\* Faulty variant of YearsAxis: range(horizonte_temporal), the horizon year left out
YearsAxis_sin_final(h) == Range(h)

\* list(range(horizonte_temporal + 1))
YearsAxis(h) == Range(h + 1)

\* Serie A: calcular_valor_futuro at the reference rate, one point per year
SerieMercado(axis, pv, pmt, rate) ==
    [i \in 1..Len(axis) |-> calcular_valor_futuro(pv, pmt, axis[i], rate)]

\* Serie B: the path at the required rate, or the flat target
SerieObjetivo(axis, pv, pmt, cagr, objetivo) ==
    [i \in 1..Len(axis) |->
        IF Truthy(cagr)
        THEN calcular_valor_futuro(pv, pmt, axis[i], cagr.val)
        ELSE objetivo]

\* Faulty variant of SerieCash: counts the contributions of the year that starts
SerieCash_anio_siguiente(axis, pv, pmt) ==
    [i \in 1..Len(axis) |-> pv + (pmt * 12 * (axis[i] + 1))]

\* Serie C: savings without interest
SerieCash(axis, pv, pmt) ==
    [i \in 1..Len(axis) |-> pv + (pmt * 12 * axis[i])]

GapAhorro(ahorro, aportacion) ==
    IF Truthy(ahorro) THEN ahorro.val - aportacion ELSE 0

KpiCagr(cagr) ==
    IF cagr.ok THEN Mostrar(cagr.val * 100) ELSE Literal("Inviable")

KpiAhorro(ahorro) ==
    IF ahorro.ok THEN Mostrar(RoundHalfEven(ahorro.val, Scale)) ELSE Literal("N/A")

Init ==
    /\ pc = "entrada"
    /\ input_mode \in {"Manual", "CSV"}
    /\ patrimonio_inicial \in Patrimonios(input_mode)
    /\ aportacion_actual \in Aportaciones
    /\ horizonte_temporal \in Horizontes
    /\ rentabilidad_fija_decimal \in RentabilidadesFijas
    /\ objetivo_patrimonial \in
           Objetivos(patrimonio_inicial, aportacion_actual, horizonte_temporal)
    /\ cagr_necesario = None
    /\ ahorro_necesario_mensual = None
    /\ gap_ahorro = 0
    /\ kpi = <<>>
    /\ years_axis = <<>>
    /\ serie_mercado = <<>>
    /\ serie_objetivo = <<>>
    /\ serie_cash = <<>>
    /\ final_con_ref = 0
    /\ data_resumen = <<>>
    /\ df_export = <<>>
    /\ pdf = <<>>

\* One run of main() down to the chart: the calculations, the KPI row and the
\* three series
main ==
    /\ pc = "entrada"
    /\ \E cagr \in calcular_cagr_necesario(patrimonio_inicial, objetivo_patrimonial,
                                           horizonte_temporal, aportacion_actual) :
        LET ahorro == calcular_aportacion_necesaria(patrimonio_inicial,
                          objetivo_patrimonial, horizonte_temporal,
                          rentabilidad_fija_decimal)
            axis == YearsAxis(horizonte_temporal)
        IN  /\ cagr_necesario' = cagr
            /\ ahorro_necesario_mensual' = ahorro
            /\ gap_ahorro' = GapAhorro(ahorro, aportacion_actual)
            /\ final_con_ref' = calcular_valor_futuro(patrimonio_inicial,
                                    aportacion_actual, horizonte_temporal,
                                    rentabilidad_fija_decimal)
            /\ kpi' = [cagr |-> KpiCagr(cagr), ahorro |-> KpiAhorro(ahorro)]
            /\ years_axis' = axis
            /\ serie_mercado' = SerieMercado(axis, patrimonio_inicial,
                                    aportacion_actual, rentabilidad_fija_decimal)
            /\ serie_objetivo' = SerieObjetivo(axis, patrimonio_inicial,
                                    aportacion_actual, cagr, objetivo_patrimonial)
            /\ serie_cash' = SerieCash(axis, patrimonio_inicial, aportacion_actual)
    /\ pc' = "mostrado"
    /\ UNCHANGED <<input_mode, patrimonio_inicial, objetivo_patrimonial,
                   horizonte_temporal, aportacion_actual,
                   rentabilidad_fija_decimal, data_resumen, df_export, pdf>>

\* data_resumen, the fields the report's two scenarios read
DataResumen(cagr, ahorro, gap, horizonte) ==
    [ horizonte        |-> horizonte,
      cagr_necesario   |-> IF Truthy(cagr) THEN Mostrar(cagr.val * 100)
                           ELSE Literal("Inviable"),
      ahorro_necesario |-> IF Truthy(ahorro)
                           THEN Mostrar(RoundHalfEven(ahorro.val, Scale \div 100))
                           ELSE Literal("N/A"),
      gap_ahorro       |-> Mostrar(RoundHalfEven(gap, Scale \div 100)) ]

\* Faulty variant of IndicesToShow: i < 5 in place of i <= 5
IndicesToShow_estricto(axis) ==
    SelectSeq(Range(Len(axis)), LAMBDA i : i < 5 \/ i = Len(axis) - 1)

\* [i for i in range(len(years_axis)) if i <= 5 or i == len(years_axis)-1]
IndicesToShow(axis) ==
    SelectSeq(Range(Len(axis)), LAMBDA i : i <= 5 \/ i = Len(axis) - 1)

\* df_export: the rows of the year axis, the ideal path and the cash series at
\* indices_to_show (0-based)
DfExport(axis, objetivo, cash) ==
    LET indices_to_show == IndicesToShow(axis)
    IN  [k \in 1..Len(indices_to_show) |->
            [ Anio          |-> 2024 + axis[indices_to_show[k] + 1],
              Patrimonio    |-> objetivo[indices_to_show[k] + 1],
              TotalAportado |-> cash[indices_to_show[k] + 1] ]]

\* generar_pdf: the summary fields as given, one table row per row of
\* df_proyeccion, amounts printed with no decimals
generar_pdf(resumen, df_proyeccion) ==
    [ resumen |-> resumen,
      filas   |-> [k \in 1..Len(df_proyeccion) |->
                     [ year_lbl   |-> df_proyeccion[k].Anio,
                       patrimonio |-> RoundHalfEven(df_proyeccion[k].Patrimonio, Scale),
                       aportado   |-> RoundHalfEven(df_proyeccion[k].TotalAportado, Scale) ]] ]

\* The run in which the export button is pressed: the same results, then the
\* report
exportar_pdf ==
    /\ pc = "mostrado"
    /\ LET resumen == DataResumen(cagr_necesario, ahorro_necesario_mensual,
                                  gap_ahorro, horizonte_temporal)
           df == DfExport(years_axis, serie_objetivo, serie_cash)
       IN  /\ data_resumen' = resumen
           /\ df_export' = df
           /\ pdf' = generar_pdf(resumen, df)
    /\ pc' = "exportado"
    /\ UNCHANGED <<input_mode, patrimonio_inicial, objetivo_patrimonial,
                   horizonte_temporal, aportacion_actual,
                   rentabilidad_fija_decimal, cagr_necesario,
                   ahorro_necesario_mensual, gap_ahorro, kpi, years_axis,
                   serie_mercado, serie_objetivo, serie_cash, final_con_ref>>

Next == main \/ exportar_pdf

Spec == Init /\ [][Next]_vars

----------------------------------------------------------------------------
(* Properties *)

Calculado == pc # "entrada"

\* "Within tolerance": 0.2 % of the target, far looser than the 1e-6 the
\* specification asks for
Tolerancia(t) == Abs(t) \div 500

\* C1: whenever the rate solve has a solution, the future value at the rate
\* calcular_cagr_necesario returned equals the target within tolerance, and so
\* does the last point of the ideal path.
C1_RateRoundTrip ==
    (Calculado /\ cagr_necesario.ok) =>
        /\ Abs(calcular_valor_futuro(patrimonio_inicial, aportacion_actual,
                   horizonte_temporal, cagr_necesario.val) - objetivo_patrimonial)
             <= Tolerancia(objetivo_patrimonial)
        /\ Abs(serie_objetivo[horizonte_temporal + 1] - objetivo_patrimonial)
             <= Tolerancia(objetivo_patrimonial)

\* The payment is rounded down to 1 / Scale; carried through the annuity that
\* is at most the future value of 1 / Scale a month
HolguraPago ==
    fv_contributions(1, horizonte_temporal * 12, rentabilidad_fija_decimal \div 12) + 2

\* C2: for pv >= 0, target > 0 and a fixed rate >= 0, the future value with the
\* payment calcular_aportacion_necesaria returned equals the target within
\* tolerance, also when the principal alone already exceeds the target.
C2_PaymentRoundTrip ==
    (Calculado /\ patrimonio_inicial >= 0 /\ objetivo_patrimonial > 0
               /\ ahorro_necesario_mensual.ok) =>
        Abs(calcular_valor_futuro(patrimonio_inicial, ahorro_necesario_mensual.val,
                horizonte_temporal, rentabilidad_fija_decimal) - objetivo_patrimonial)
          <= Tolerancia(objetivo_patrimonial) + HolguraPago

\* C3: the rate is shown as "Inviable" (KPI card, report, flat ideal series) and
\* the savings as "N/A" (KPI card, report) exactly when the engine returned
\* None; a number, 0 included, is never shown as infeasible, and card and report
\* agree.
C3_InfeasibleIffNone ==
    /\ Calculado =>
        /\ (kpi.cagr = Literal("Inviable")) <=> ~cagr_necesario.ok
        /\ (kpi.ahorro = Literal("N/A")) <=> ~ahorro_necesario_mensual.ok
        /\ (serie_objetivo = [i \in 1..Len(years_axis) |-> objetivo_patrimonial])
             <=> ~cagr_necesario.ok
    /\ pc = "exportado" =>
        /\ (data_resumen.cagr_necesario = Literal("Inviable")) <=> ~cagr_necesario.ok
        /\ (data_resumen.ahorro_necesario = Literal("N/A"))
             <=> ~ahorro_necesario_mensual.ok
        /\ (data_resumen.cagr_necesario = Literal("Inviable"))
             <=> (kpi.cagr = Literal("Inviable"))
        /\ (data_resumen.ahorro_necesario = Literal("N/A"))
             <=> (kpi.ahorro = Literal("N/A"))

\* C4: for every number calcular_aportacion_necesaria returned, zero included,
\* the gap is exactly required payment minus current contribution.
C4_GapIsDifference ==
    (Calculado /\ ahorro_necesario_mensual.ok) =>
        gap_ahorro = ahorro_necesario_mensual.val - aportacion_actual

\* C5: each of the three series has horizon + 1 points, and the i-th point is
\* the point of year i, for i = 0..horizon, feasible rate or not.
C5_SeriesLength ==
    Calculado =>
        /\ Len(years_axis) = horizonte_temporal + 1
        /\ Len(serie_mercado) = horizonte_temporal + 1
        /\ Len(serie_objetivo) = horizonte_temporal + 1
        /\ Len(serie_cash) = horizonte_temporal + 1
        /\ \A y \in 0..horizonte_temporal :
            /\ years_axis[y + 1] = y
            /\ serie_mercado[y + 1] =
                 calcular_valor_futuro(patrimonio_inicial, aportacion_actual, y,
                                       rentabilidad_fija_decimal)
            /\ serie_cash[y + 1] = patrimonio_inicial + aportacion_actual * 12 * y
            /\ cagr_necesario.ok =>
                 serie_objetivo[y + 1] =
                   calcular_valor_futuro(patrimonio_inicial, aportacion_actual, y,
                                         cagr_necesario.val)
            /\ ~cagr_necesario.ok => serie_objetivo[y + 1] = objetivo_patrimonial

C5_Witness ==
    /\ pc = "mostrado"
    /\ horizonte_temporal = 50
    /\ ~cagr_necesario.ok
    /\ Len(serie_mercado) = 51 /\ Len(serie_objetivo) = 51 /\ Len(serie_cash) = 51

\* C6: with a non-negative rate and a non-negative contribution the projected
\* wealth never decreases from one year to the next, whatever present value
\* reaches the engine.
C6_Monotone ==
    (Calculado /\ rentabilidad_fija_decimal >= 0 /\ aportacion_actual >= 0) =>
        \A y \in 0..(horizonte_temporal - 1) :
            /\ serie_mercado[y + 2] >= serie_mercado[y + 1]
            /\ calcular_valor_futuro(patrimonio_inicial, aportacion_actual, y + 1,
                                     rentabilidad_fija_decimal)
                 >= calcular_valor_futuro(patrimonio_inicial, aportacion_actual, y,
                                          rentabilidad_fija_decimal)

\* C7: at annual rate 0 the future value is pv + pmt * 12 * years, so every
\* point of the cash series is the future value at rate 0, and at a reference
\* rate of 0 the market series is the cash series.
C7_ZeroRate ==
    Calculado =>
        \A y \in 0..horizonte_temporal :
            /\ calcular_valor_futuro(patrimonio_inicial, aportacion_actual, y, 0)
                 = patrimonio_inicial + aportacion_actual * 12 * y
            /\ serie_cash[y + 1]
                 = calcular_valor_futuro(patrimonio_inicial, aportacion_actual, y, 0)
            /\ rentabilidad_fija_decimal = 0 =>
                 serie_mercado[y + 1] = patrimonio_inicial + aportacion_actual * 12 * y

C7_Witness ==
    /\ pc = "mostrado"
    /\ rentabilidad_fija_decimal = 0
    /\ aportacion_actual > 0
    /\ patrimonio_inicial > 0
    /\ horizonte_temporal = 50
    /\ serie_mercado[51] = patrimonio_inicial + aportacion_actual * 600
    /\ serie_mercado[51] = serie_cash[51]

\* Annual rates below, at and above zero, as calcular_valor_futuro receives them
TasasAnuales ==
    RentabilidadesFijas \cup {0} \cup {Pow(Scale + m, 12) - Scale : m \in TasasMensuales}

\* C8: with no contribution and a horizon of zero years the future value is the
\* present value, at every rate: positive, zero or negative.
C8_ZeroHorizonIdentity ==
    Calculado =>
        /\ \A r \in TasasAnuales :
               calcular_valor_futuro(patrimonio_inicial, 0, 0, r) = patrimonio_inicial
        /\ aportacion_actual = 0 =>
            /\ serie_mercado[1] = patrimonio_inicial
            /\ cagr_necesario.ok => serie_objetivo[1] = patrimonio_inicial

C8_Witness ==
    /\ pc = "mostrado"
    /\ aportacion_actual = 0
    /\ patrimonio_inicial > 0
    /\ cagr_necesario.ok /\ cagr_necesario.val < 0
    /\ rentabilidad_fija_decimal > 0
    /\ serie_objetivo[1] = patrimonio_inicial
    /\ serie_mercado[1] = patrimonio_inicial

Min(a, b) == IF a < b THEN a ELSE b

C10_AnnuityUnlessZero ==
    (Calculado /\ Truthy(cagr_necesario)) =>
        \A y \in 0..horizonte_temporal :
            LET months == y * 12
                monthly_rate == cagr_necesario.val \div 12
            IN  serie_objetivo[y + 1]
                  - fv_principal(patrimonio_inicial, months, monthly_rate)
                = Mul(aportacion_actual,
                      Div(Pow(Scale + monthly_rate, months) - Scale, monthly_rate))

\* C11: for pv >= 0, a contribution >= 0 and a reference rate >= 0 the market
\* series is at or above the cash series in every year 0..h, both series start
\* at pv in year 0, and the projected final wealth of the third KPI card is the
\* last point of the market series.
C11_MarketDominatesCash ==
    (Calculado /\ patrimonio_inicial >= 0 /\ aportacion_actual >= 0
               /\ rentabilidad_fija_decimal >= 0) =>
        /\ \A y \in 0..horizonte_temporal :
               serie_mercado[y + 1] >= serie_cash[y + 1]
        /\ serie_mercado[1] = patrimonio_inicial
        /\ serie_cash[1] = patrimonio_inicial
        /\ final_con_ref = serie_mercado[horizonte_temporal + 1]

C11_Witness ==
    /\ pc = "mostrado"
    /\ patrimonio_inicial > 0
    /\ aportacion_actual > 0
    /\ rentabilidad_fija_decimal > 0
    /\ horizonte_temporal = 50
    /\ serie_mercado[51] > serie_cash[51]
    /\ serie_mercado[2] > serie_cash[2]
    /\ final_con_ref = serie_mercado[51]

====
